---- MODULE Spec2Model ----
(***************************************************************************)
(* Supply-chain dashboard (src/streamlit.py): the snapshot built by        *)
(* parse_supply_chain_data, the threshold classifier                       *)
(* analyze_critical_issues, the KPI row of main, create_summary_report and *)
(* the export section of main, as one run of main over a snapshot.         *)
(*                                                                         *)
(* Text: TLA+ strings are ASCII, so every message is modelled without its  *)
(* leading emoji and the blank that follows it ("CRITICAL: ..." stands for *)
(* the source's "<emoji> CRITICAL: ...").                                  *)
(*                                                                         *)
(* Numbers: quotients are IEEE doubles, rounded at the division, again at  *)
(* the product by 100, and then printed correctly rounded to one decimal.  *)
(*                                                                         *)
(* Exceptions: an operator that models a raising expression yields the     *)
(* name of the exception ("KeyError", "ZeroDivisionError") in place of its *)
(* value.  A frame is the list of its rows; built from an empty list it    *)
(* has no columns, so selecting a column of it raises KeyError.            *)
(***************************************************************************)
EXTENDS Integers, Sequences, FiniteSets, TLC

VARIABLES pc, data, calls, issues, error, alerts, metrics, report, downloads

vars == <<pc, data, calls, issues, error, alerts, metrics, report, downloads>>

(***************************************************************************)
(* Bounds of the input sets.                                               *)
(***************************************************************************)
MaxProd == 2
MaxCap == 2
MaxCalls == 2

(***************************************************************************)
(* Number formatting, as Python's format mini-language computes it.        *)
(***************************************************************************)
Digit(d) == SubSeq("0123456789", d + 1, d + 1)

RECURSIVE NatStr(_)
NatStr(n) == IF n < 10 THEN Digit(n) ELSE NatStr(n \div 10) \o Digit(n % 10)

\* str(n) of an integer
IntStr(n) == IF n < 0 THEN "-" \o NatStr(-n) ELSE NatStr(n)

Pad3(n) == Digit(n \div 100) \o Digit((n \div 10) % 10) \o Digit(n % 10)

RECURSIVE GroupThousands(_)
GroupThousands(n) ==
    IF n < 1000 THEN NatStr(n)
    ELSE GroupThousands(n \div 1000) \o "," \o Pad3(n % 1000)

\* f"{n:,}"
FormatComma(n) == IF n < 0 THEN "-" \o GroupThousands(-n) ELSE GroupThousands(n)

(***************************************************************************)
(* IEEE-754 binary64 arithmetic on positive values.  A double is           *)
(* (h * 2^36 + m * 2^18 + l) * 2^e with a 53-bit significand split into    *)
(* three limbs (h of 17 bits, m and l of 18), so that every intermediate   *)
(* value fits the integers of the model checker.  Operands are below 2^30. *)
(***************************************************************************)
Limb == 2^18

DoubleZero == [h |-> 0, m |-> 0, l |-> 0, e |-> 0]

\* the significand plus one unit in the last place, renormalised
DoubleNextUp(x) ==
    IF x.l + 1 < Limb THEN [x EXCEPT !.l = x.l + 1]
    ELSE IF x.m + 1 < Limb THEN [x EXCEPT !.l = 0, !.m = x.m + 1]
    ELSE IF x.h + 1 < 2^17 THEN [x EXCEPT !.l = 0, !.m = 0, !.h = x.h + 1]
    ELSE [h |-> 2^16, m |-> 0, l |-> 0, e |-> x.e + 1]

\* n steps of binary long division of r by b (r < b): <<quotient bits, remainder>>
RECURSIVE DivBits(_, _, _, _)
DivBits(r, b, n, acc) ==
    IF n = 0 THEN <<acc, r>>
    ELSE IF 2 * r >= b THEN DivBits(2 * r - b, b, n - 1, 2 * acc + 1)
    ELSE DivBits(2 * r, b, n - 1, 2 * acc)

\* <<a', b', k>> with a/b = (a'/b') * 2^k and 1 <= a'/b' < 2
RECURSIVE ScaleToUnit(_, _, _)
ScaleToUnit(a, b, k) ==
    IF a < b THEN ScaleToUnit(2 * a, b, k - 1)
    ELSE IF a >= 2 * b THEN ScaleToUnit(a, 2 * b, k + 1)
    ELSE <<a, b, k>>

\* a / b for integers a >= 0, b > 0: the quotient rounded to nearest, ties to even
DoubleDiv(a, b) ==
    IF a = 0 THEN DoubleZero
    ELSE LET s == ScaleToUnit(a, b, 0)
             qh == DivBits(s[1] - s[2], s[2], 16, 1)
             qm == DivBits(qh[2], s[2], 18, 0)
             ql == DivBits(qm[2], s[2], 18, 0)
             qg == DivBits(ql[2], s[2], 1, 0)
             x == [h |-> qh[1], m |-> qm[1], l |-> ql[1], e |-> s[3] - 52]
         IN  IF qg[1] = 1 /\ (qg[2] # 0 \/ x.l % 2 = 1) THEN DoubleNextUp(x) ELSE x

\* x * 100: the exact product rounded to nearest, ties to even
DoubleTimes100(x) ==
    IF x = DoubleZero THEN DoubleZero
    ELSE LET pl == 100 * x.l
             pm == 100 * x.m + pl \div Limb
             ph == 100 * x.h + pm \div Limb
             l1 == pl % Limb
             m1 == pm % Limb
             s == IF ph >= 2^23 THEN 7 ELSE 6
             rem == l1 % 2^s
             y == [h |-> ph \div 2^s,
                   m |-> m1 \div 2^s + (ph % 2^s) * 2^(18 - s),
                   l |-> l1 \div 2^s + (m1 % 2^s) * 2^(18 - s),
                   e |-> x.e + s]
         IN  IF rem > 2^(s - 1) \/ (rem = 2^(s - 1) /\ y.l % 2 = 1)
             THEN DoubleNextUp(y) ELSE y

\* the decimal of x correctly rounded to one place, in tenths (ties of the
\* binary value itself to even), for 2^-1000 < x < 2^27
DoubleTenths(x) ==
    IF x = DoubleZero THEN 0
    ELSE LET nl == 10 * x.l
             nm == 10 * x.m + nl \div Limb
             h10 == 10 * x.h + nm \div Limb
             l10 == nl % Limb
             m10 == nm % Limb
             f == -x.e
             s == IF f >= 36 THEN f - 36 ELSE f - 18
             top == IF f >= 36 THEN h10 ELSE m10
             low == IF f >= 36 THEN m10 ELSE l10
             below == IF f >= 36 THEN m10 # 0 \/ l10 # 0 ELSE l10 # 0
             t == IF s > 21 THEN 0
                  ELSE IF f >= 36 THEN h10 \div 2^s
                  ELSE h10 * 2^(18 - s) + m10 \div 2^s
             half == IF s > 22 THEN FALSE
                     ELSE IF s = 0 THEN low >= 2^17
                     ELSE (top \div 2^(s - 1)) % 2 = 1
             rest == IF s > 22 THEN TRUE
                     ELSE IF s = 0 THEN (low % 2^17 # 0) \/ (f >= 36 /\ l10 # 0)
                     ELSE (top % 2^(s - 1) # 0) \/ below
         IN  IF half /\ (rest \/ t % 2 = 1) THEN t + 1 ELSE t

\* f"{x:.1f}" of a double x >= 0
FormatDouble1(x) ==
    LET t == DoubleTenths(x)
    IN  NatStr(t \div 10) \o "." \o Digit(t % 10)

\* f"{num/den:.1f}" for num >= 0; a zero denominator is numpy's nan or inf
FormatFixed1(num, den) ==
    IF den = 0 THEN (IF num = 0 THEN "nan" ELSE "inf")
    ELSE FormatDouble1(DoubleDiv(num, den))

\* f"{num/den*100:.1f}" for num >= 0; a zero denominator is numpy's nan or inf
FormatTimes100Fixed1(num, den) ==
    IF den = 0 THEN (IF num = 0 THEN "nan" ELSE "inf")
    ELSE FormatDouble1(DoubleTimes100(DoubleDiv(num, den)))

\* f"{num/den:.1%}" for num >= 0, den > 0: the ratio times 100, then 'f'
FormatPercent1(num, den) == FormatDouble1(DoubleTimes100(DoubleDiv(num, den))) \o "%"

\* str(x) of a float given in hundredths: shortest repr, at least one decimal
FormatAmount(h) ==
    NatStr(h \div 100) \o "." \o Digit((h \div 10) % 10)
        \o (IF h % 10 = 0 THEN "" ELSE Digit(h % 10))

\* Python's "pat in s" / pandas str.contains for a pattern of literal characters
Contains(s, pat) ==
    \E i \in 1..(Len(s) - Len(pat) + 1) : SubSeq(s, i, i + Len(pat) - 1) = pat

(***************************************************************************)
(* Sequence helpers.                                                       *)
(***************************************************************************)
RECURSIVE SumSeq(_)
SumSeq(s) == IF s = <<>> THEN 0 ELSE Head(s) + SumSeq(Tail(s))

Column(df, f) == [i \in 1..Len(df) |-> df[i][f]]

RECURSIVE Flatten(_)
Flatten(ss) == IF ss = <<>> THEN <<>> ELSE Head(ss) \o Flatten(Tail(ss))

SeqsUpTo(S, lo, hi) == UNION {[1..n -> S] : n \in lo..hi}

(***************************************************************************)
(* The snapshot of parse_supply_chain_data.  Amounts are in hundredths.    *)
(***************************************************************************)
ProdRow(d, p, a, v, r) ==
    [Date |-> d, Planned_Qty |-> p, Actual_Qty |-> a, Variance |-> v, Reason |-> r]

production_data ==
    << ProdRow("10-Jun-2025", 800, 936, 136, "2 Lines loading"),
       ProdRow("11-Jun-2025", 800, 1180, 380, "2 Lines loading/material issue"),
       ProdRow("12-Jun-2025", 800, 650, -150, "Loading end/feeding issue"),
       ProdRow("13-Jun-2025", 2000, 0, -2000, "FEEDING ISSUE FROM CUTTING"),
       ProdRow("14-Jun-2025", 2000, 0, -2000, "FEEDING ISSUE FROM CUTTING"),
       ProdRow("16-Jun-2025", 2000, 393, -1607, "FEEDING ISSUE FROM CUTTING") >>

CapRow(d, c, l, a, u, m) ==
    [Department |-> d, Capacity |-> c, Planned_Load |-> l, Actual_Prod |-> a,
     Utilization |-> u, MTD |-> m]

capacity_data ==
    << CapRow("Cutting", 3000, 1823, 1800, 60, 8763),
       CapRow("Stitching", 2788, 0, 393, 14, 7974),
       CapRow("Lasting", 3462, 0, 0, 0, 12100) >>

MrpRow(o, ord, av, st) == [Order |-> o, Ordered |-> ord, Available |-> av, Status |-> st]

mrp_data ==
    << MrpRow("673", "Yes", "Yes", "Complete"),
       MrpRow("675", "Yes", "Yes", "Complete"),
       MrpRow("677", "Yes", "Yes", "Complete"),
       MrpRow("679", "No", "No", "Critical"),
       MrpRow("680", "Yes", "No", "Pending"),
       MrpRow("681", "No", "No", "Critical") >>

Bucket(c, a) == [Count |-> c, Amount |-> a]

procurement_data ==
    [PO_Issued |-> Bucket(92, 11477), PO_Received |-> Bucket(56, 9684),
     PO_Pending |-> Bucket(36, 1793)]

import_data ==
    [PI |-> [Total |-> 12, Received |-> 12, Approved |-> 12, Pending |-> 0],
     Payment |-> [Done |-> 3, Pending |-> 4, Total |-> 7],
     Shipment |-> [May |-> 1, June |-> 8, July |-> 1]]

warehouse_data ==
    [FG_Stock |-> [Elten |-> 1090, Bata |-> 0, S_Step |-> 1500, Total |-> 2590],
     GRN |-> [Total |-> 4, Done |-> 4, Pending |-> 0]]

Snapshot(p, c, m, pr) ==
    [production |-> p, capacity |-> c, mrp |-> m, procurement |-> pr,
     imports |-> import_data, warehouse |-> warehouse_data]

parse_supply_chain_data ==
    Snapshot(production_data, capacity_data, mrp_data, procurement_data)

(***************************************************************************)
(* analyze_critical_issues: one operator per rule, in evaluation order.    *)
(***************************************************************************)
\* faulty variant of production_shortfall: the threshold taken as <= -3000
production_shortfall_inclusive(prod_df) ==
    LET total_variance == SumSeq(Column(prod_df, "Variance"))
    IN  IF total_variance <= -3000
        THEN << "CRITICAL: Production shortfall of "
                    \o FormatComma(IF total_variance < 0 THEN -total_variance
                                   ELSE total_variance)
                    \o " units" >>
        ELSE <<>>

\* lines 144-147: the appended shortfall issue, if any
production_shortfall(prod_df) ==
    LET total_variance == SumSeq(Column(prod_df, "Variance"))
    IN  IF prod_df = <<>> THEN "KeyError"
        ELSE IF total_variance < -3000
        THEN << "CRITICAL: Production shortfall of "
                    \o FormatComma(IF total_variance < 0 THEN -total_variance
                                   ELSE total_variance)
                    \o " units" >>
        ELSE <<>>

UpperChar(c) ==
    LET lower == "abcdefghijklmnopqrstuvwxyz"
        upper == "ABCDEFGHIJKLMNOPQRSTUVWXYZ"
    IN  IF \E i \in 1..26 : SubSeq(lower, i, i) = c
        THEN LET i == CHOOSE j \in 1..26 : SubSeq(lower, j, j) = c
             IN  SubSeq(upper, i, i)
        ELSE c

RECURSIVE Upper(_)
Upper(s) ==
    IF Len(s) = 0 THEN ""
    ELSE UpperChar(SubSeq(s, 1, 1)) \o Upper(SubSeq(s, 2, Len(s)))

\* faulty variant of feeding_rows: the match made case-insensitive (case=False)
feeding_rows_nocase(prod_df) ==
    SelectSeq(prod_df, LAMBDA row : Contains(Upper(row.Reason), "FEEDING ISSUE"))

\* line 150: the rows whose Reason matches 'FEEDING ISSUE'
feeding_rows(prod_df) ==
    IF prod_df = <<>> THEN "KeyError"
    ELSE SelectSeq(prod_df, LAMBDA row : Contains(row.Reason, "FEEDING ISSUE"))

\* lines 150-152: the appended feeding issue, if any
feeding_issue(prod_df) ==
    LET feeding_issues == feeding_rows(prod_df)
    IN  IF prod_df = <<>> THEN "KeyError"
        ELSE IF Len(feeding_issues) >= 3
        THEN << "CRITICAL: " \o IntStr(Len(feeding_issues))
                    \o " days of feeding issues from cutting" >>
        ELSE <<>>

\* faulty variant of capacity_rule: the elif written as a second if
capacity_rule_two_ifs(row) ==
    [critical |-> IF row.Utilization < 20
                  THEN << "CRITICAL: " \o row.Department \o " capacity at "
                              \o IntStr(row.Utilization) \o "%" >>
                  ELSE <<>>,
     high |-> IF row.Utilization < 40
              THEN << "HIGH: " \o row.Department \o " underutilized at "
                          \o IntStr(row.Utilization) \o "%" >>
              ELSE <<>>]

\* lines 157-160: what one capacity row appends to each list
capacity_rule(row) ==
    IF row.Utilization < 20
    THEN [critical |-> << "CRITICAL: " \o row.Department \o " capacity at "
                              \o IntStr(row.Utilization) \o "%" >>,
          high |-> <<>>]
    ELSE IF row.Utilization < 40
    THEN [critical |-> <<>>,
          high |-> << "HIGH: " \o row.Department \o " underutilized at "
                          \o IntStr(row.Utilization) \o "%" >>]
    ELSE [critical |-> <<>>, high |-> <<>>]

\* lines 155-160: the loop over the capacity rows
capacity_issues(cap_df) ==
    [critical |-> Flatten([i \in 1..Len(cap_df) |-> capacity_rule(cap_df[i]).critical]),
     high |-> Flatten([i \in 1..Len(cap_df) |-> capacity_rule(cap_df[i]).high])]

\* faulty variant of mrp_issue: one issue per critical order
mrp_issue_per_order(mrp_df) ==
    LET critical_orders == SelectSeq(mrp_df, LAMBDA row : row.Status = "Critical")
    IN  [i \in 1..Len(critical_orders) |->
             "HIGH: " \o IntStr(Len(critical_orders))
                 \o " orders with material unavailability"]

\* lines 163-166
mrp_issue(mrp_df) ==
    LET critical_orders == SelectSeq(mrp_df, LAMBDA row : row.Status = "Critical")
    IN  IF mrp_df = <<>> THEN "KeyError"
        ELSE IF Len(critical_orders) > 0
        THEN << "HIGH: " \o IntStr(Len(critical_orders))
                    \o " orders with material unavailability" >>
        ELSE <<>>

\* faulty variant of procurement_issue: the threshold taken as >= 0.3
procurement_issue_inclusive(proc) ==
    IF 10 * proc.PO_Pending.Count >= 3 * proc.PO_Issued.Count
    THEN << "MEDIUM: " \o FormatPercent1(proc.PO_Pending.Count, proc.PO_Issued.Count)
                \o " of POs pending" >>
    ELSE <<>>

\* lines 170-172: pending_ratio > 0.3; the counts are Python ints, so a zero
\* PO_Issued count raises at line 170
procurement_issue(proc) ==
    IF proc.PO_Issued.Count = 0 THEN "ZeroDivisionError"
    ELSE IF 10 * proc.PO_Pending.Count > 3 * proc.PO_Issued.Count
    THEN << "MEDIUM: " \o FormatPercent1(proc.PO_Pending.Count, proc.PO_Issued.Count)
                \o " of POs pending" >>
    ELSE <<>>

\* the exception the call raises, "" when it returns: lines 145, 164, 170
analyze_error(d) ==
    IF d.production = <<>> THEN "KeyError"
    ELSE IF d.mrp = <<>> THEN "KeyError"
    ELSE IF d.procurement.PO_Issued.Count = 0 THEN "ZeroDivisionError"
    ELSE ""

(***************************************************************************)
(* The call, statement by statement, over the objects it can reach.  The   *)
(* store maps a name to an object: the keys of the caller's dict name the  *)
(* objects the dict refers to, and prod_df, cap_df, mrp_df and proc are    *)
(* further references to those same objects (lines 144, 155, 163, 169), so *)
(* a write through one of them would be a write to the caller's snapshot.  *)
(***************************************************************************)
\* lines 139-141: three new empty lists on every call
Entry(d) ==
    [store |-> d, critical_issues |-> <<>>, high_issues |-> <<>>, medium_issues |-> <<>>]

\* faulty variant of BooleanIndex: the rows not selected are dropped from the
\* indexed frame itself (as df.drop(..., inplace=True) does)
BooleanIndexInPlace(store, df, result, selected) ==
    [o \in DOMAIN store \cup {result} |-> IF o \in {df, result} THEN selected ELSE store[o]]

\* df[mask], lines 150 and 164: the selected rows become a new frame object,
\* the indexed frame keeps its rows
BooleanIndex(store, df, result, selected) ==
    [o \in DOMAIN store \cup {result} |-> IF o = result THEN selected ELSE store[o]]

\* lines 144-147: column sum, read only
ProductionStatements(env) ==
    [env EXCEPT !.critical_issues = @ \o production_shortfall(env.store["production"])]

\* lines 150-152
FeedingStatements(env) ==
    LET prod_df == env.store["production"]
    IN  [env EXCEPT !.store = BooleanIndex(@, "production", "feeding_issues",
                                           feeding_rows(prod_df)),
                    !.critical_issues = @ \o feeding_issue(prod_df)]

\* lines 155-160: iterrows hands out a copy of each row, read only
CapacityStatements(env) ==
    LET found == capacity_issues(env.store["capacity"])
    IN  [env EXCEPT !.critical_issues = @ \o found.critical,
                    !.high_issues = @ \o found.high]

\* lines 163-166
MrpStatements(env) ==
    LET mrp_df == env.store["mrp"]
    IN  [env EXCEPT !.store = BooleanIndex(@, "mrp", "critical_orders",
                                           SelectSeq(mrp_df,
                                                     LAMBDA row : row.Status = "Critical")),
                    !.high_issues = @ \o mrp_issue(mrp_df)]

\* lines 169-172: nested dict lookups, read only
ProcurementStatements(env) ==
    [env EXCEPT !.medium_issues = @ \o procurement_issue(env.store["procurement"])]

\* lines 139-172 in order, for a call that does not raise
analyze_statements(d) ==
    ProcurementStatements(MrpStatements(CapacityStatements(
        FeedingStatements(ProductionStatements(Entry(d))))))

\* the three lists returned at line 174
analyze_critical_issues(d) ==
    IF analyze_error(d) # "" THEN analyze_error(d)
    ELSE LET env == analyze_statements(d)
         IN  [critical |-> env.critical_issues,
              high |-> env.high_issues,
              medium |-> env.medium_issues]

\* what the caller's dict refers to once the call has returned; feeding_issues
\* and critical_orders were locals of the call
snapshot_after(d) == [k \in DOMAIN d |-> analyze_statements(d).store[k]]

(***************************************************************************)
(* KPIs (main lines 331-352, create_summary_report lines 245-249).  The    *)
(* production sums are numpy integers, so a zero planned total gives nan   *)
(* or inf; the procurement counts are Python ints, so a zero PO_Issued     *)
(* count raises ZeroDivisionError; a frame without rows raises KeyError.   *)
(***************************************************************************)
\* f"{num/den:.1f}" with the last digit truncated instead of rounded
FormatTruncated1(num, den) ==
    IF den = 0 THEN (IF num = 0 THEN "nan" ELSE "inf")
    ELSE LET t == (1000 * num) \div den
         IN  NatStr(t \div 10) \o "." \o Digit(t % 10)

\* faulty variant of production_efficiency: truncation to one decimal
production_efficiency_truncated(d) ==
    FormatTruncated1(SumSeq(Column(d.production, "Actual_Qty")),
                     SumSeq(Column(d.production, "Planned_Qty")))

\* lines 245, 332
production_efficiency(d) ==
    IF d.production = <<>> THEN "KeyError"
    ELSE FormatTimes100Fixed1(SumSeq(Column(d.production, "Actual_Qty")),
                              SumSeq(Column(d.production, "Planned_Qty")))

\* lines 246, 337
production_variance(d) ==
    IF d.production = <<>> THEN "KeyError"
    ELSE FormatComma(SumSeq(Column(d.production, "Variance")))

\* lines 247, 342: the mean is the sum over the count, one division
avg_utilization(d) ==
    IF d.capacity = <<>> THEN "KeyError"
    ELSE FormatFixed1(SumSeq(Column(d.capacity, "Utilization")), Len(d.capacity))

\* lines 248, 347
po_completion(d) ==
    IF d.procurement.PO_Issued.Count = 0 THEN "ZeroDivisionError"
    ELSE FormatTimes100Fixed1(d.procurement.PO_Received.Count,
                              d.procurement.PO_Issued.Count)

fg_inventory(d) == FormatComma(d.warehouse.FG_Stock.Total)

\* the exception the KPI row raises, "" when it completes: lines 332, 342, 347
metrics_error(d) ==
    IF d.production = <<>> THEN "KeyError"
    ELSE IF d.capacity = <<>> THEN "KeyError"
    ELSE IF d.procurement.PO_Issued.Count = 0 THEN "ZeroDivisionError"
    ELSE ""

\* the value strings of the st.metric calls made, "" for those not reached
main_metrics(d) ==
    [efficiency |-> IF d.production = <<>> THEN "" ELSE production_efficiency(d) \o "%",
     variance |-> IF d.production = <<>> THEN "" ELSE production_variance(d),
     avg_util |-> IF d.production = <<>> \/ d.capacity = <<>> THEN ""
                  ELSE avg_utilization(d) \o "%",
     po_rate |-> IF metrics_error(d) # "" THEN "" ELSE po_completion(d) \o "%",
     inventory |-> IF metrics_error(d) # "" THEN "" ELSE fg_inventory(d)]

\* lines 312-325: the alert boxes, or the success box when all lists are empty
main_alerts(iss) ==
    IF iss.critical = <<>> /\ iss.high = <<>> /\ iss.medium = <<>>
    THEN << [class |-> "success-box", text |-> "All Systems Operating Normally"] >>
    ELSE [i \in 1..Len(iss.critical) |->
              [class |-> "critical-alert", text |-> iss.critical[i]]]
         \o [i \in 1..Len(iss.high) |-> [class |-> "high-alert", text |-> iss.high[i]]]
         \o [i \in 1..Len(iss.medium) |->
                 [class |-> "medium-alert", text |-> iss.medium[i]]]

(***************************************************************************)
(* Wall-clock time and its two renderings.                                 *)
(***************************************************************************)
Pad2(n) == Digit(n \div 10) \o Digit(n % 10)

MonthAbbr(m) ==
    <<"Jan", "Feb", "Mar", "Apr", "May", "Jun",
      "Jul", "Aug", "Sep", "Oct", "Nov", "Dec">>[m]

\* strftime('%d-%b-%Y %H:%M')
strftime_report(t) ==
    Pad2(t.day) \o "-" \o MonthAbbr(t.month) \o "-" \o NatStr(t.year)
        \o " " \o Pad2(t.hour) \o ":" \o Pad2(t.minute)

\* strftime('%Y%m%d_%H%M')
strftime_file(t) ==
    NatStr(t.year) \o Pad2(t.month) \o Pad2(t.day) \o "_" \o Pad2(t.hour) \o Pad2(t.minute)

\* the instants datetime.now() may return
Clock ==
    { [year |-> 2025, month |-> 6, day |-> 16, hour |-> 9, minute |-> 5],
      [year |-> 2025, month |-> 12, day |-> 1, hour |-> 23, minute |-> 59] }

(***************************************************************************)
(* create_summary_report: the variable parts of the report text, in the    *)
(* order they are written.  medium_issues is accepted and never printed.   *)
(***************************************************************************)
\* the exception the call raises, "" when it returns: lines 245, 247, 248
report_error(d) ==
    IF d.production = <<>> THEN "KeyError"
    ELSE IF d.capacity = <<>> THEN "KeyError"
    ELSE IF d.procurement.PO_Issued.Count = 0 THEN "ZeroDivisionError"
    ELSE ""

create_summary_report(d, critical_issues, high_issues, medium_issues, now) ==
    IF report_error(d) # "" THEN report_error(d) ELSE
    [report_date |-> "**Report Date:** " \o strftime_report(now),
     critical_header |-> "CRITICAL ALERTS (" \o IntStr(Len(critical_issues)) \o ")",
     critical_lines |-> [i \in 1..Len(critical_issues) |-> "- " \o critical_issues[i]],
     high_header |-> "HIGH PRIORITY (" \o IntStr(Len(high_issues)) \o ")",
     high_lines |-> [i \in 1..Len(high_issues) |-> "- " \o high_issues[i]],
     efficiency |-> "- **Production Efficiency:** " \o production_efficiency(d) \o "%",
     variance |-> "- **Total Production Variance:** " \o production_variance(d)
                      \o " units",
     avg_util |-> "- **Average Capacity Utilization:** " \o avg_utilization(d) \o "%",
     po_rate |-> "- **PO Completion Rate:** " \o po_completion(d) \o "%",
     inventory |-> "- **Total FG Inventory:** " \o fg_inventory(d) \o " pairs",
     follow_up |-> "4. **MEDIUM:** Follow up on "
                      \o IntStr(d.procurement.PO_Pending.Count) \o " pending POs worth pkr"
                      \o FormatAmount(d.procurement.PO_Pending.Amount) \o "M"]

(***************************************************************************)
(* export_report_to_excel: the workbook as sheet name -> header and rows.  *)
(* No line of main calls it.                                               *)
(***************************************************************************)
Sheet(columns, rows) ==
    [columns |-> IF rows = <<>> THEN <<>> ELSE columns, rows |-> rows]

export_report_to_excel(d, summary_report) ==
    [Executive_Summary |-> Sheet(<<"Executive Summary">>, << <<summary_report>> >>),
     Production |->
         Sheet(<<"Date", "Planned_Qty", "Actual_Qty", "Variance", "Reason">>, d.production),
     Capacity |->
         Sheet(<<"Department", "Capacity", "Planned_Load", "Actual_Prod", "Utilization",
                 "MTD">>, d.capacity),
     MRP |-> Sheet(<<"Order", "Ordered", "Available", "Status">>, d.mrp),
     Procurement |->
         Sheet(<<"Status", "Count", "Amount (M)">>,
               << <<"PO Issued", d.procurement.PO_Issued.Count,
                    d.procurement.PO_Issued.Amount>>,
                  <<"PO Received", d.procurement.PO_Received.Count,
                    d.procurement.PO_Received.Amount>>,
                  <<"PO Pending", d.procurement.PO_Pending.Count,
                    d.procurement.PO_Pending.Amount>> >>),
     Warehouse |->
         Sheet(<<"Brand", "Stock (Pairs)">>,
               << <<"Elten", d.warehouse.FG_Stock.Elten>>,
                  <<"Bata", d.warehouse.FG_Stock.Bata>>,
                  <<"S-Step", d.warehouse.FG_Stock.S_Step>>,
                  <<"Total", d.warehouse.FG_Stock.Total>> >>)]

(***************************************************************************)
(* Snapshots handed to the pipeline: the built-in one, and snapshots whose *)
(* domains are drawn from small pools around the thresholds.               *)
(***************************************************************************)
ProductionPool ==
    { ProdRow("12-Jun-2025", 800, 650, -150, "Loading end/feeding issue"),
      ProdRow("13-Jun-2025", 2000, 0, -2000, "FEEDING ISSUE FROM CUTTING"),
      ProdRow("17-Jun-2025", 3000, 0, -3000, "FEEDING ISSUE FROM CUTTING"),
      ProdRow("18-Jun-2025", 1, 0, -1, "material issue"),
      ProdRow("19-Jun-2025", 0, 0, 0, "No plan"),
      ProdRow("20-Jun-2025", 800, 936, -136, "2 Lines loading") }

ProductionFrames == SeqsUpTo(ProductionPool, 1, MaxProd)

Departments == <<"Cutting", "Stitching", "Lasting", "Finishing", "Packing">>

UtilizationPool == {19, 20, 39, 40}

CapacityFrame(us) == [i \in 1..Len(us) |-> CapRow(Departments[i], 3000, 0, 0, us[i], 0)]

CapacityFrames == { CapacityFrame(us) : us \in SeqsUpTo(UtilizationPool, 0, MaxCap) }

OrderIds == <<"673", "675", "677">>

StatusLists ==
    { <<>>, <<"Complete">>, <<"Pending", "Critical">>, <<"Critical", "Complete", "Critical">> }

MrpFrame(ss) ==
    [i \in 1..Len(ss) |->
        MrpRow(OrderIds[i],
               IF ss[i] = "Critical" THEN "No" ELSE "Yes",
               IF ss[i] = "Complete" THEN "Yes" ELSE "No",
               ss[i])]

MrpFrames == { MrpFrame(ss) : ss \in StatusLists }

\* <<pending, issued, received>> counts
CountPool ==
    { <<36, 92, 56>>, <<3, 10, 7>>, <<30, 100, 70>>, <<31, 100, 69>>,
      <<5, 16, 11>>, <<49, 80, 23>>, <<1, 3, 2>>, <<2, 10, 8>>, <<0, 0, 0>>,
      <<4, 0, 0>> }

ProcurementPool ==
    { [PO_Issued |-> Bucket(c[2], 11477), PO_Received |-> Bucket(c[3], 9684),
       PO_Pending |-> Bucket(c[1], 1793)] : c \in CountPool }

Snapshots ==
    {parse_supply_chain_data}
    \cup { Snapshot(p, c, m, procurement_data) :
               p \in ProductionFrames,
               c \in {capacity_data, CapacityFrame(<<19, 20>>), <<>>},
               m \in {MrpFrame(<<"Complete">>),
                      MrpFrame(<<"Critical", "Complete", "Critical">>)} }
    \cup { Snapshot(p, c, m, pr) :
               p \in {production_data,
                      <<ProdRow("10-Jun-2025", 800, 936, 136, "2 Lines loading")>>,
                      <<ProdRow("21-Jun-2025", 80, 23, -57, "material issue")>>,
                      <<>>},
               c \in CapacityFrames, m \in MrpFrames, pr \in ProcurementPool }

(***************************************************************************)
(* One run of main over a snapshot.                                        *)
(***************************************************************************)
NoIssues == [critical |-> <<>>, high |-> <<>>, medium |-> <<>>]

NoMetrics ==
    [efficiency |-> "", variance |-> "", avg_util |-> "", po_rate |-> "", inventory |-> ""]

NoReport ==
    [report_date |-> "", critical_header |-> "", critical_lines |-> <<>>,
     high_header |-> "", high_lines |-> <<>>, efficiency |-> "", variance |-> "",
     avg_util |-> "", po_rate |-> "", inventory |-> "", follow_up |-> ""]

\* line 306 has run: data holds the snapshot
Init ==
    /\ pc = "analyze"
    /\ data \in Snapshots
    /\ calls = 0
    /\ issues = NoIssues
    /\ error = ""
    /\ alerts = <<>>
    /\ metrics = NoMetrics
    /\ report = NoReport
    /\ downloads = {}

\* line 307; a caller may repeat the call on the snapshot it holds, which is
\* then the snapshot as the call before left it.  A call that raises has up
\* to the raising line run only those same reads and selections.
AnalyzeCriticalIssues ==
    /\ pc = "analyze"
    /\ calls < MaxCalls
    /\ IF analyze_error(data) # ""
       THEN /\ pc' = "aborted"
            /\ error' = analyze_error(data)
            /\ UNCHANGED <<calls, issues, data>>
       ELSE /\ issues' = analyze_critical_issues(data)
            /\ data' = snapshot_after(data)
            /\ calls' = calls + 1
            /\ UNCHANGED <<pc, error>>
    /\ UNCHANGED <<alerts, metrics, report, downloads>>

\* lines 309-352: the alert boxes, then the KPI row
RenderAlertsAndMetrics ==
    /\ pc = "analyze"
    /\ calls = 1
    /\ alerts' = main_alerts(issues)
    /\ metrics' = main_metrics(data)
    /\ IF metrics_error(data) # ""
       THEN /\ pc' = "aborted"
            /\ error' = metrics_error(data)
       ELSE /\ pc' = "export"
            /\ UNCHANGED error
    /\ UNCHANGED <<data, calls, issues, report, downloads>>

\* line 411
CreateSummaryReport ==
    /\ pc = "export"
    /\ IF report_error(data) # ""
       THEN /\ pc' = "aborted"
            /\ error' = report_error(data)
            /\ UNCHANGED report
       ELSE /\ \E now \in Clock :
                   report' = create_summary_report(data, issues.critical, issues.high,
                                                   issues.medium, now)
            /\ pc' = "download"
            /\ UNCHANGED error
    /\ UNCHANGED <<data, calls, issues, alerts, metrics, downloads>>

\* lines 412-417: the only download button main creates; main then returns
DownloadSummary ==
    /\ pc = "download"
    /\ \E now \in Clock :
           downloads' = downloads \cup
               { [label |-> "Download Executive Summary",
                  data |-> report,
                  file_name |-> "Supply_Chain_Summary_" \o strftime_file(now) \o ".md",
                  mime |-> "text/markdown"] }
    /\ pc' = "done"
    /\ UNCHANGED <<data, calls, issues, error, alerts, metrics, report>>

Next ==
    \/ AnalyzeCriticalIssues
    \/ RenderAlertsAndMetrics
    \/ CreateSummaryReport
    \/ DownloadSummary

Spec == Init /\ [][Next]_vars

(***************************************************************************)
(* Properties.                                                             *)
(***************************************************************************)
Analyzed == calls >= 1

TotalVariance == SumSeq(Column(data.production, "Variance"))

FeedingCount ==
    Len(SelectSeq(data.production, LAMBDA row : Contains(row.Reason, "FEEDING ISSUE")))

CriticalOrderCount == Len(SelectSeq(data.mrp, LAMBDA row : row.Status = "Critical"))

Mentions(msgs, text) == SelectSeq(msgs, LAMBDA m : Contains(m, text))

\* C1: no division error propagates: on a snapshot whose PO_Issued count is 0
\* the run is never aborted by a ZeroDivisionError (the rule or KPI is skipped).
C1_DivisionByZeroGuarded ==
    data.procurement.PO_Issued.Count = 0 => error # "ZeroDivisionError"

\* C2: every capacity row yields exactly one critical issue when its
\* utilization is below 20, exactly one high issue when it is in [20, 40),
\* none from 40 up, and its department is never named in both lists.
C2_OneCapacityIssuePerDepartment ==
    Analyzed =>
        \A i \in 1..Len(data.capacity) :
            LET row == data.capacity[i]
                u == row.Utilization
                crit == Mentions(issues.critical, row.Department)
                high == Mentions(issues.high, row.Department)
            IN  /\ Len(crit) + Len(high) <= 1
                /\ u < 20 =>
                       crit = << "CRITICAL: " \o row.Department \o " capacity at "
                                     \o IntStr(u) \o "%" >>
                /\ (20 <= u /\ u < 40) =>
                       high = << "HIGH: " \o row.Department \o " underutilized at "
                                     \o IntStr(u) \o "%" >>
                /\ u >= 40 => (crit = <<>> /\ high = <<>>)

C2_Witness ==
    /\ Analyzed
    /\ \E i, j \in 1..Len(data.capacity) :
           /\ data.capacity[i].Utilization = 19
           /\ data.capacity[j].Utilization = 20
           /\ Mentions(issues.critical, data.capacity[i].Department) # <<>>
           /\ Mentions(issues.high, data.capacity[j].Department) # <<>>

\* C3: the shortfall rule is strict: a variance sum of -3000 or more emits no
\* shortfall issue, a sum below -3000 emits exactly one critical issue citing
\* the absolute value of the sum with thousands separators (-3001: "3,001").
C3_StrictShortfallThreshold ==
    Analyzed =>
        LET shortfalls == Mentions(issues.critical, "Production shortfall")
        IN  /\ TotalVariance >= -3000 => shortfalls = <<>>
            /\ TotalVariance < -3000 =>
                   shortfalls = << "CRITICAL: Production shortfall of "
                                       \o FormatComma(-TotalVariance) \o " units" >>
            /\ TotalVariance = -3001 =>
                   (Len(shortfalls) = 1 /\ Contains(shortfalls[1], " 3,001 "))
            /\ TotalVariance = -5000 =>
                   (Len(shortfalls) = 1 /\ Contains(shortfalls[1], " 5,000 "))
            /\ TotalVariance = -5241 =>
                   (Len(shortfalls) = 1 /\ Contains(shortfalls[1], " 5,241 "))

C3_Witness ==
    /\ Analyzed
    /\ TotalVariance = -3001
    /\ issues.critical[1] = "CRITICAL: Production shortfall of 3,001 units"

\* C4: the procurement rule is strict: with PO_Issued > 0, a pending ratio of
\* exactly 0.3 or lower leaves the medium list empty, a ratio above 0.3 puts
\* exactly one issue in it, giving the ratio as a percentage to one decimal
\* (31 of 100: "31.0%").
C4_StrictPendingRatioThreshold ==
    (Analyzed /\ data.procurement.PO_Issued.Count > 0) =>
        LET pending == data.procurement.PO_Pending.Count
            issued == data.procurement.PO_Issued.Count
        IN  /\ 10 * pending <= 3 * issued => issues.medium = <<>>
            /\ 10 * pending > 3 * issued =>
                   /\ Len(issues.medium) = 1
                   /\ \E t \in {(1000 * pending) \div issued,
                                (1000 * pending) \div issued + 1} :
                          /\ 2 * (1000 * pending - t * issued) <= issued
                          /\ 2 * (t * issued - 1000 * pending) <= issued
                          /\ issues.medium[1] =
                                 "MEDIUM: " \o NatStr(t \div 10) \o "." \o Digit(t % 10)
                                     \o "% of POs pending"
            /\ 100 * pending = 31 * issued =>
                   issues.medium = << "MEDIUM: 31.0% of POs pending" >>

C4_Witness ==
    /\ Analyzed
    /\ data.procurement.PO_Pending.Count = 31
    /\ data.procurement.PO_Issued.Count = 100
    /\ issues.medium = << "MEDIUM: 31.0% of POs pending" >>

\* C5: the feeding rule counts the rows whose reason contains the upper-case
\* text "FEEDING ISSUE" and emits exactly one critical issue citing the count
\* iff the count is at least 3; the built-in data counts 3 (its lower-case
\* 'Loading end/feeding issue' row is not counted) and yields exactly
\* "3 days of feeding issues from cutting".
C5_FeedingIssueRule ==
    Analyzed =>
        LET feeding == Mentions(issues.critical, "days of feeding issues from cutting")
        IN  /\ FeedingCount < 3 => feeding = <<>>
            /\ FeedingCount >= 3 =>
                   feeding = << "CRITICAL: " \o IntStr(FeedingCount)
                                    \o " days of feeding issues from cutting" >>
            /\ data.production = production_data =>
                   feeding = << "CRITICAL: 3 days of feeding issues from cutting" >>
            /\ (\A i \in 1..Len(data.production) :
                    data.production[i].Reason = "Loading end/feeding issue")
                   => feeding = <<>>

C5_Witness ==
    /\ Analyzed
    /\ data.production = production_data
    /\ issues.critical[2] = "CRITICAL: 3 days of feeding issues from cutting"

\* C6: each list is in rule-evaluation order without deduplication: critical
\* is the optional shortfall issue, the optional feeding issue, then the
\* critical capacity issues in row order; high is the high capacity issues in
\* row order, then one MRP issue iff some order is Critical, citing their
\* count; medium holds at most the procurement issue.
C6_RuleEvaluationOrder ==
    Analyzed =>
        LET k1 == IF TotalVariance < -3000 THEN 1 ELSE 0
            k2 == IF FeedingCount >= 3 THEN 1 ELSE 0
            capCrit == SelectSeq(data.capacity, LAMBDA row : row.Utilization < 20)
            capHigh == SelectSeq(data.capacity,
                                 LAMBDA row : row.Utilization >= 20 /\ row.Utilization < 40)
            k3 == IF CriticalOrderCount > 0 THEN 1 ELSE 0
        IN  /\ Len(issues.critical) = k1 + k2 + Len(capCrit)
            /\ k1 = 1 => Contains(issues.critical[1], "Production shortfall of")
            /\ k2 = 1 => Contains(issues.critical[k1 + 1], "days of feeding issues")
            /\ \A j \in 1..Len(capCrit) :
                   Contains(issues.critical[k1 + k2 + j],
                            capCrit[j].Department \o " capacity at")
            /\ Len(issues.high) = Len(capHigh) + k3
            /\ \A j \in 1..Len(capHigh) :
                   Contains(issues.high[j], capHigh[j].Department \o " underutilized at")
            /\ k3 = 1 =>
                   issues.high[Len(issues.high)] =
                       "HIGH: " \o IntStr(CriticalOrderCount)
                           \o " orders with material unavailability"
            /\ Len(issues.medium) <= 1
            /\ Len(issues.medium) = 1 => Contains(issues.medium[1], "of POs pending")

C6_Witness ==
    /\ Analyzed
    /\ CriticalOrderCount >= 2
    /\ Len(issues.critical) >= 2
    /\ Len(issues.high) >= 2
    /\ Contains(issues.critical[1], "Production shortfall of")
    /\ Contains(issues.high[Len(issues.high)], "2 orders with material unavailability")

C8_MalformedRecordsRejected ==
    Analyzed =>
        \A i \in 1..Len(data.production) :
            data.production[i].Variance =
                data.production[i].Actual_Qty - data.production[i].Planned_Qty

\* C9: every completed run of main offers both export artifacts: the summary
\* text and the workbook export_report_to_excel builds from the same snapshot
\* and summary.
C9_BothExportsOffered ==
    pc = "done" =>
        /\ \E dl \in downloads : dl.data = report
        /\ \E dl \in downloads : dl.data = export_report_to_excel(data, report)

\* C10: the efficiency shown by main and written in the report is
\* sum(Actual_Qty) / sum(Planned_Qty) * 100 to one decimal; on the built-in
\* data it is 37.6% and the total variance next to it is 3159 - 8400 = -5,241.
C10_ProductionEfficiency ==
    LET actual == SumSeq(Column(data.production, "Actual_Qty"))
        planned == SumSeq(Column(data.production, "Planned_Qty"))
        nearest == { t \in {(1000 * actual) \div planned, (1000 * actual) \div planned + 1} :
                         /\ 2 * (1000 * actual - t * planned) <= planned
                         /\ 2 * (t * planned - 1000 * actual) <= planned }
        texts == { NatStr(t \div 10) \o "." \o Digit(t % 10) \o "%" : t \in nearest }
    IN  /\ (pc \in {"export", "download", "done"} /\ planned > 0) =>
               metrics.efficiency \in texts
        /\ (pc \in {"download", "done"} /\ planned > 0) =>
               \E x \in texts : report.efficiency = "- **Production Efficiency:** " \o x
        /\ (pc \in {"export", "download", "done"} /\ data.production = production_data) =>
               /\ actual = 3159 /\ planned = 8400
               /\ metrics.efficiency = "37.6%"
               /\ metrics.variance = "-5,241"
               /\ TotalVariance = actual - planned
        /\ (pc \in {"download", "done"} /\ data.production = production_data) =>
               /\ report.efficiency = "- **Production Efficiency:** 37.6%"
               /\ report.variance = "- **Total Production Variance:** -5,241 units"

C10_Witness ==
    /\ pc = "done"
    /\ data = parse_supply_chain_data
    /\ report.efficiency = "- **Production Efficiency:** 37.6%"
    /\ metrics.variance = "-5,241"

====
